---- MODULE Spec2Model ----
(***************************************************************************)
(* A model of logfilter.py: configuration discovery (load_config_paths),   *)
(* the flat key=value parser and merger (parse_kv_config, load_defaults),   *)
(* the sectioned configuration (read_configuration, match_section), the    *)
(* option disambiguator (disambiguate) and the part of main() that ties     *)
(* them together.                                                          *)
(*                                                                         *)
(* Python strings are modelled as sequences of one-character strings, so   *)
(* that stripping, partitioning, prefix tests and glob matching are        *)
(* computed character by character as the library routines compute them.   *)
(***************************************************************************)
EXTENDS Integers, Sequences, FiniteSets, TLC

\* ---------------------------------------------------------------- bounds
MaxLineLen == 3
MaxLines == 2
MaxNames == 2
MaxCalls == 2
MaxDirsLen == 3
MaxReadDicts == 3

\* ---------------------------------------------------------------- state
VARIABLES
    \* parse_kv_config: loop position, the line just read, the mapping before
    \* and after it, the number of lines read, the mapping returned
    kv_pc, kv_line, kv_prev, symbols, kv_n, kv_result,
    \* disambiguate: the names given, whether they sit behind an iterator, what
    \* the iterator has left, func, and the calls made so far
    names, names_oneshot, names_left, dis_func, dis_calls,
    \* the process environment and the file system
    environ, fs,
    \* load_config_paths: generator position, resource, xdg_config_dirs, loop
    \* index, paths yielded
    lcp_pc, lcp_resource, lcp_dirs, lcp_i, lcp_out,
    \* load_defaults: position, the defaults argument, the paths found, loop
    \* index, maps, and the ChainMap returned
    ld_pc, ld_defaults, ld_cfgs, ld_i, ld_maps, general_defaults,
    \* the ConfigParser, and a lookup in it: position, read_dict calls made,
    \* the name looked up, what match_section returned, the mapping in use
    cfg, ms_pc, ms_n, ms_name, ms_result, ms_section,
    \* main: position; read_configuration's files to read, index, the parser
    \* as it was before the file last read, and the files read; the
    \* configparser error caught; exit status and what die() printed; the
    \* parsed arguments, the log file loop index, the awk runs made
    pc, rc_cfgs, rc_i, rc_before, files_read, err, exit_status, stderr,
    args, lf_i, awk_runs

kvVars == <<kv_pc, kv_line, kv_prev, symbols, kv_n, kv_result>>
disVars == <<names, names_oneshot, names_left, dis_func, dis_calls>>
envVars == <<environ, fs>>
lcpVars == <<lcp_pc, lcp_resource, lcp_dirs, lcp_i, lcp_out>>

ldVars == <<ld_pc, ld_defaults, ld_cfgs, ld_i, ld_maps, general_defaults>>

msVars == <<cfg, ms_pc, ms_n, ms_name, ms_result, ms_section>>

mainVars == <<pc, rc_cfgs, rc_i, rc_before, files_read, err, exit_status, stderr,
              args, lf_i, awk_runs>>

vars == <<kvVars, disVars, envVars, lcpVars, ldVars, msVars, mainVars>>

notKv == <<disVars, envVars, lcpVars, ldVars, msVars, mainVars>>
notDis == <<kvVars, envVars, lcpVars, ldVars, msVars, mainVars>>
notLcp == <<kvVars, disVars, ldVars, msVars, mainVars>>
notLd == <<kvVars, disVars, envVars, lcpVars, msVars, mainVars>>
notMs == <<kvVars, disVars, envVars, lcpVars, ldVars, mainVars>>

\* ------------------------------------------------------- string helpers
\* str.strip()/str.lstrip() without arguments remove these characters.
Whitespace == {" ", "\t", "\n", "\r", "\f"}

UpperCase == <<"A","B","C","D","E","F","G","H","I","J","K","L","M",
               "N","O","P","Q","R","S","T","U","V","W","X","Y","Z">>
LowerCase == <<"a","b","c","d","e","f","g","h","i","j","k","l","m",
               "n","o","p","q","r","s","t","u","v","w","x","y","z">>

IndexIn(c, table) == CHOOSE i \in 1..Len(table) : table[i] = c

LowerChar(c) ==
    IF \E i \in 1..Len(UpperCase) : UpperCase[i] = c
    THEN LowerCase[IndexIn(c, UpperCase)] ELSE c

UpperChar(c) ==
    IF \E i \in 1..Len(LowerCase) : LowerCase[i] = c
    THEN UpperCase[IndexIn(c, LowerCase)] ELSE c

\* str.lower
Lower(s) == [i \in 1..Len(s) |-> LowerChar(s[i])]

\* str.upper
Upper(s) == [i \in 1..Len(s) |-> UpperChar(s[i])]

RECURSIVE LStrip(_)
\* str.lstrip
LStrip(s) ==
    IF s = <<>> THEN <<>>
    ELSE IF Head(s) \in Whitespace THEN LStrip(Tail(s)) ELSE s

RECURSIVE RStrip(_)
\* str.rstrip
RStrip(s) ==
    IF s = <<>> THEN <<>>
    ELSE IF s[Len(s)] \in Whitespace THEN RStrip(SubSeq(s, 1, Len(s) - 1)) ELSE s

\* str.strip
Strip(s) == RStrip(LStrip(s))

\* str.startswith
StartsWith(s, prefix) ==
    /\ Len(prefix) <= Len(s)
    /\ SubSeq(s, 1, Len(prefix)) = prefix

RECURSIVE Find(_, _, _)
\* index of the first occurrence of character c in s at or after i, 0 if none
Find(s, c, i) ==
    IF i > Len(s) THEN 0
    ELSE IF s[i] = c THEN i ELSE Find(s, c, i + 1)

PartitionLastMutant(s, c) ==
    LET hits == {i \in 1..Len(s) : s[i] = c} IN
    IF hits = {} THEN <<s, <<>>, <<>>>>
    ELSE LET i == CHOOSE j \in hits : \A h \in hits : h <= j IN
         <<SubSeq(s, 1, i - 1), <<c>>, SubSeq(s, i + 1, Len(s))>>

\* str.partition(c): <<before, separator, after>>, split at the first c;
\* <<s, "", "">> when c does not occur.
Partition(s, c) ==
    LET i == Find(s, c, 1) IN
    IF i = 0 THEN <<s, <<>>, <<>>>>
    ELSE <<SubSeq(s, 1, i - 1), <<c>>, SubSeq(s, i + 1, Len(s))>>

\* all strings of length at most n over the characters of alphabet
RECURSIVE StringsUpTo(_, _)
StringsUpTo(alphabet, n) ==
    IF n = 0 THEN {<<>>}
    ELSE LET shorter == StringsUpTo(alphabet, n - 1) IN
         shorter \cup {Append(s, c) : s \in shorter, c \in alphabet}

\* dict update d[k] = v
Put(d, k, v) == [x \in DOMAIN d \cup {k} |-> IF x = k THEN v ELSE d[x]]

EmptyDict == [x \in {} |-> <<>>]

\* ------------------------------------------------------ parse_kv_config
\* characters the modelled input lines are written in
KvAlphabet == {" ", "#", "=", "K"}

KvLines == StringsUpTo(KvAlphabet, MaxLineLen)

\* one iteration of the for loop of parse_kv_config on `line`
ParseKvStep(syms, line) ==
    LET stripped == LStrip(line)
        parts == Partition(stripped, "=")
    IN  IF StartsWith(stripped, <<"#">>) THEN syms
        ELSE IF parts[2] = <<>> THEN syms
        ELSE Put(syms, Lower(Strip(parts[1])), Strip(parts[3]))

RECURSIVE ParseKvConfig(_, _)
\* parse_kv_config(reader), the loop run over the whole of reader
ParseKvConfig(reader, syms) ==
    IF reader = <<>> THEN syms
    ELSE ParseKvConfig(Tail(reader), ParseKvStep(syms, Head(reader)))

KvIdle ==
    /\ kv_pc = "idle" /\ kv_line = <<>> /\ kv_prev = EmptyDict
    /\ symbols = EmptyDict /\ kv_n = 0 /\ kv_result = EmptyDict

KvInit ==
    /\ kv_pc = "loop" /\ kv_line = <<>> /\ kv_prev = EmptyDict
    /\ symbols = EmptyDict /\ kv_n = 0 /\ kv_result = EmptyDict

\* the reader hands over its next line and the loop body runs on it
ParseKvLine ==
    /\ kv_pc = "loop"
    /\ kv_n < MaxLines
    /\ \E line \in KvLines :
        /\ kv_line' = line
        /\ kv_prev' = symbols
        /\ symbols' = ParseKvStep(symbols, line)
    /\ kv_n' = kv_n + 1
    /\ UNCHANGED <<kv_pc, kv_result>>
    /\ UNCHANGED notKv

\* the reader is exhausted: return symbols
ParseKvReturn ==
    /\ kv_pc = "loop"
    /\ kv_pc' = "returned"
    /\ kv_result' = symbols
    /\ UNCHANGED <<kv_line, kv_prev, symbols, kv_n>>
    /\ UNCHANGED notKv

\* --------------------------------------------------------- disambiguate
\* what a failed list index would leave instead of a return value
Raised == <<"IndexError">>

\* _NAMES of the unit tests and LOG_LEVELS of the program
TestNames == <<<<"a">>, <<"a","a">>, <<"a","b">>, <<"a","c">>, <<"a","d","e">>>>
LOG_LEVELS == <<<<"C","R","I","T","I","C","A","L">>, <<"E","R","R","O","R">>, <<"W","A","R","N","I","N","G">>, <<"I","N","F","O">>, <<"D","E","B","U","G">>>>

\* the names the bounded candidate lists are built from
NameUniverse == {<<"a">>, <<"a","a">>, <<"a","d","e">>, <<"A">>}

\* the inputs the resolver is called with
DisInputs == {<<>>, <<"a">>, <<"a","a">>, <<"a","d">>, <<"b">>, <<"A">>, <<"w","a","r","n">>, <<"e">>}

RECURSIVE SeqsUpTo(_, _)
\* all sequences of length at most n over the set S
SeqsUpTo(S, n) ==
    IF n = 0 THEN {<<>>}
    ELSE LET shorter == SeqsUpTo(S, n - 1) IN
         shorter \cup {Append(s, x) : s \in shorter, x \in S}

NameLists == SeqsUpTo(NameUniverse, MaxNames) \cup {TestNames, LOG_LEVELS}

\* the func argument of disambiguate: str (the default) or str.upper
ApplyFunc(f, s) == IF f = "upper" THEN Upper(s) ELSE s

RECURSIVE Candidates(_, _, _)
\* [name for name in names if func(name).startswith(value)]
Candidates(scanned, f, value) ==
    IF scanned = <<>> THEN <<>>
    ELSE LET rest == Candidates(Tail(scanned), f, value) IN
         IF StartsWith(ApplyFunc(f, Head(scanned)), value)
         THEN <<Head(scanned)>> \o rest ELSE rest

\* candidates[0]
ListFirst(l) == IF l = <<>> THEN Raised ELSE l[1]

TypeCheckerFirstMutant(scanned, f, raw) ==
    LET value == ApplyFunc(f, raw)
        candidates == Candidates(scanned, f, value)
    IN  IF Len(candidates) = 0 THEN value ELSE ListFirst(candidates)

\* type_checker(raw) when iterating names yields the sequence `scanned`
TypeChecker(scanned, f, raw) ==
    LET value == ApplyFunc(f, raw)
        candidates == Candidates(scanned, f, value)
    IN  IF Len(candidates) # 1 THEN value ELSE ListFirst(candidates)

AfterScanKeepMutant(oneshot, left) == left

\* what is left of the iterable once the list comprehension has run over it:
\* an iterator is exhausted, a collection starts over at every iteration
AfterScan(oneshot, left) == IF oneshot THEN <<>> ELSE left

DisIdle ==
    /\ names = <<>> /\ names_oneshot = FALSE /\ names_left = <<>>
    /\ dis_func = "str" /\ dis_calls = <<>>

\* disambiguate(names, func): a collection, or iter() of one
DisInit ==
    /\ names \in NameLists
    /\ names_oneshot \in BOOLEAN
    /\ names_left = names
    /\ dis_func \in {"str", "upper"}
    /\ dis_calls = <<>>

\* one call of the function disambiguate returned
TypeCheckerCall ==
    /\ Len(dis_calls) < MaxCalls
    /\ \E raw \in DisInputs :
        dis_calls' = Append(dis_calls,
            [value |-> raw, result |-> TypeChecker(names_left, dis_func, raw)])
    /\ names_left' = AfterScan(names_oneshot, names_left)
    /\ UNCHANGED <<names, names_oneshot, dis_func>>
    /\ UNCHANGED notDis

\* ----------------------------------------------------- load_config_paths
\* Paths and environment values are strings too; their "characters" are
\* path components, "/" and ":".

\* os.environ.get(name) of a variable that is not set
None == <<"None">>

\* __prog__, CONFIG_PATH, LOGFILES_CONF_PATH
Prog == <<"logfilter">>
CONFIG_PATH == <<"config">>
LOGFILES_CONF_PATH == <<"logfiles.conf">>

\* os.path.expanduser("~")
UserHome == <<"/", "home">>

\* the default of XDG_CONFIG_DIRS
EtcXdg == <<"/", "etc", "/", "xdg">>

\* os.path.join(a, b)
PathJoin(a, b) ==
    IF b # <<>> /\ Head(b) = "/" THEN b
    ELSE IF a = <<>> \/ a[Len(a)] = "/" THEN a \o b
    ELSE a \o <<"/">> \o b

RECURSIVE PathJoinAll(_)
\* os.path.join(*resource)
PathJoinAll(parts) ==
    IF Len(parts) = 1 THEN parts[1]
    ELSE PathJoin(PathJoinAll(SubSeq(parts, 1, Len(parts) - 1)), parts[Len(parts)])

RECURSIVE Split(_, _)
\* str.split(sep)
Split(s, sep) ==
    LET i == Find(s, sep, 1) IN
    IF i = 0 THEN <<s>>
    ELSE <<SubSeq(s, 1, i - 1)>> \o Split(SubSeq(s, i + 1, Len(s)), sep)

\* x or y, for x a string or None
OrElse(x, y) == IF x = None \/ x = <<>> THEN y ELSE x

XdgConfigDirsSystemFirstMutant(env) ==
    Split(OrElse(env.XDG_CONFIG_DIRS, EtcXdg), ":")
        \o <<OrElse(env.XDG_CONFIG_HOME, PathJoin(UserHome, <<".config">>))>>

\* xdg_config_dirs of load_config_paths
XdgConfigDirs(env) ==
    <<OrElse(env.XDG_CONFIG_HOME, PathJoin(UserHome, <<".config">>))>>
        \o Split(OrElse(env.XDG_CONFIG_DIRS, EtcXdg), ":")

\* os.path.exists(path): fs maps the paths that exist to their files
Exists(files, path) == path \in DOMAIN files

RECURSIVE YieldExisting(_, _, _)
\* the for loop of load_config_paths, run to the end over config_dirs
YieldExisting(config_dirs, resource_path, files) ==
    IF config_dirs = <<>> THEN <<>>
    ELSE LET path == PathJoin(Head(config_dirs), resource_path)
             rest == YieldExisting(Tail(config_dirs), resource_path, files)
         IN  IF Exists(files, path) THEN <<path>> \o rest ELSE rest

\* list(load_config_paths(*resource))
LoadConfigPaths(env, files, resource) ==
    YieldExisting(XdgConfigDirs(env), PathJoinAll(resource), files)

\* a readable file without content
PlainFile == [openable |-> TRUE, lines |-> <<>>, items |-> <<>>]

\* the values of the two environment variables
HomeValues == {None, <<>>, <<"a">>}
DirsValues == {None} \cup StringsUpTo({"a", "b", ":"}, MaxDirsLen)

\* the base directories that may hold files
FsDirs == {PathJoin(UserHome, <<".config">>), EtcXdg, <<"a">>, <<"b">>, <<>>}

Resources == {<<Prog, CONFIG_PATH>>, <<Prog, LOGFILES_CONF_PATH>>}

LcpIdle ==
    /\ lcp_pc = "idle" /\ lcp_resource = <<Prog>> /\ lcp_dirs = <<>>
    /\ lcp_i = 0 /\ lcp_out = <<>>

\* load_config_paths(*resource) called: the generator exists, nothing has run
LcpCalled ==
    /\ environ \in [XDG_CONFIG_HOME : HomeValues, XDG_CONFIG_DIRS : DirsValues]
    /\ lcp_resource \in Resources
    /\ \E present \in SUBSET ({PathJoin(d, PathJoinAll(r)) : d \in FsDirs, r \in {lcp_resource}}
                              \cup {PathJoin(<<"a">>, PathJoinAll(<<Prog, <<"other">>>>))}) :
        fs = [path \in present |-> PlainFile]
    /\ lcp_pc = "created" /\ lcp_dirs = <<>> /\ lcp_i = 0 /\ lcp_out = <<>>

\* first next(): the environment is read and the loop entered
LcpBegin ==
    /\ lcp_pc = "created"
    /\ lcp_dirs' = XdgConfigDirs(environ)
    /\ lcp_i' = 1
    /\ lcp_pc' = "loop"
    /\ UNCHANGED <<lcp_resource, lcp_out, envVars>>
    /\ UNCHANGED notLcp

\* one iteration of the for loop: the path is yielded if it exists
LcpIterate ==
    /\ lcp_pc = "loop"
    /\ lcp_i <= Len(lcp_dirs)
    /\ LET path == PathJoin(lcp_dirs[lcp_i], PathJoinAll(lcp_resource)) IN
       lcp_out' = IF Exists(fs, path) THEN Append(lcp_out, path) ELSE lcp_out
    /\ lcp_i' = lcp_i + 1
    /\ UNCHANGED <<lcp_pc, lcp_resource, lcp_dirs, envVars>>
    /\ UNCHANGED notLcp

\* the loop is over: StopIteration
LcpExhausted ==
    /\ lcp_pc = "loop"
    /\ lcp_i > Len(lcp_dirs)
    /\ lcp_pc' = "done"
    /\ UNCHANGED <<lcp_resource, lcp_dirs, lcp_i, lcp_out, envVars>>
    /\ UNCHANGED notLcp

\* ---------------------------------------------------------- load_defaults
\* DEFAULTS
DEFAULTS ==
    (<<"a","f","t","e","r">> :> <<"t","o","d","a","y","-","3","d","a","y","s">>)
    @@ (<<"b","e","f","o","r","e">> :> <<"t","o","d","a","y","+","1","d","a","y">>)
    @@ (<<"b","a","t","c","h">> :> <<"0">>)
    @@ (<<"d","a","t","e","f","m","t">> :> <<"+","%","Y","-","%","m","-","%","d">>)
    @@ (<<"l","e","v","e","l">> :> <<"I","N","F","O">>)
    @@ (<<"l","o","g","f","i","l","e","s">> :> <<"~","/",".","l","o","g","/","*",".","l","o","g">>)
    @@ (<<"p","r","o","g","r","a","m">> :> <<"$","1"," ",">"," ","a","f","t","e","r"," ","&","&"," ","$","1"," ","<","="," ","b","e","f","o","r","e"," ","&","&"," ","$","3"," ","~"," ","l","e","v","e","l">>)

\* what the flat configuration files of the model hold
FlatContents ==
    { <<>>,
      <<<<"l","e","v","e","l","=","D","E","B","U","G">>>>,
      <<<<" "," ","L","e","v","e","l"," ","="," ","E","R","R","O","R","\n">>, <<"#"," ","l","e","v","e","l","=","I","N","F","O","\n">>>>,
      <<<<"b","a","t","c","h","=","1","\n">>, <<"l","e","v","e","l","=","W","A","R","N","I","N","G","\n">>>>,
      <<<<"x","=","1">>, <<"n","o"," ","e","q","u","a","l","s"," ","s","i","g","n">>>> }

\* the files a path may hold: readable with some content, or not to be opened
\* (permission denied, a directory, or gone again by the time of open)
FlatFiles ==
    {[openable |-> TRUE, lines |-> c, items |-> <<>>] : c \in FlatContents}
        \cup {[openable |-> FALSE, lines |-> <<>>, items |-> <<>>]}

\* collections.ChainMap(*maps, defaults): the maps, searched first to last
BuildChainDefaultsFirstMutant(maps, defaults) == <<defaults>> \o maps

BuildChain(maps, defaults) == maps \o <<defaults>>

\* ChainMap.__contains__ and keys()
ChainKeys(chain) == UNION {DOMAIN chain[i] : i \in 1..Len(chain)}

RECURSIVE ChainGet(_, _)
\* ChainMap.__getitem__: the first map that has the key
ChainGet(chain, k) ==
    IF k \in DOMAIN Head(chain) THEN Head(chain)[k] ELSE ChainGet(Tail(chain), k)

OnOpenErrorBreakMutant == "break"

\* what the except OSError clause of load_defaults does with the loop
OnOpenError == "continue"

LdIdle ==
    /\ ld_pc = "idle" /\ ld_defaults = EmptyDict /\ ld_cfgs = <<>>
    /\ ld_i = 0 /\ ld_maps = <<>> /\ general_defaults = <<>>

\* load_defaults(defaults) called
LdCalled(defaults) ==
    /\ ld_pc = "start" /\ ld_defaults = defaults /\ ld_cfgs = <<>>
    /\ ld_i = 0 /\ ld_maps = <<>> /\ general_defaults = <<>>

\* environments and file systems with flat configuration files only
LdCalledOnFlatFiles ==
    /\ environ \in [XDG_CONFIG_HOME : {None}, XDG_CONFIG_DIRS : {None, <<"a", ":", "b">>}]
    /\ \E present \in SUBSET {PathJoin(d, PathJoinAll(<<Prog, CONFIG_PATH>>)) :
                                d \in {XdgConfigDirs(environ)[i] : i \in 1..Len(XdgConfigDirs(environ))}} :
        fs \in [present -> FlatFiles]
    /\ \E defaults \in {DEFAULTS, EmptyDict} : LdCalled(defaults)

\* maps = [] and the search of the configuration path is set up
LdBegin ==
    /\ ld_pc = "start"
    /\ ld_cfgs' = LoadConfigPaths(environ, fs, <<Prog, CONFIG_PATH>>)
    /\ ld_i' = 1
    /\ ld_maps' = <<>>
    /\ ld_pc' = "loop"
    /\ UNCHANGED <<ld_defaults, general_defaults>>
    /\ UNCHANGED notLd

\* one iteration of the for loop: open the file, parse it, append its mapping
LdIterate ==
    /\ ld_pc = "loop"
    /\ ld_i <= Len(ld_cfgs)
    /\ IF fs[ld_cfgs[ld_i]].openable
       THEN /\ ld_maps' = Append(ld_maps, ParseKvConfig(fs[ld_cfgs[ld_i]].lines, EmptyDict))
            /\ ld_i' = ld_i + 1
            /\ ld_pc' = "loop"
       ELSE /\ ld_maps' = ld_maps
            /\ ld_i' = IF OnOpenError = "break" THEN Len(ld_cfgs) + 1 ELSE ld_i + 1
            /\ ld_pc' = IF OnOpenError = "raise" THEN "raised" ELSE "loop"
    /\ UNCHANGED <<ld_defaults, ld_cfgs, general_defaults>>
    /\ UNCHANGED notLd

\* return collections.ChainMap(*maps, defaults)
LdReturn ==
    /\ ld_pc = "loop"
    /\ ld_i > Len(ld_cfgs)
    /\ general_defaults' = BuildChain(ld_maps, ld_defaults)
    /\ ld_pc' = "returned"
    /\ UNCHANGED <<ld_defaults, ld_cfgs, ld_i, ld_maps>>
    /\ UNCHANGED notLd

\* ------------------------------------------- configparser.ConfigParser
\* The parser object: DEFAULT's options, the section names in the order the
\* sections were created, and each section's own options.
DefaultSect == <<"D","E","F","A","U","L","T">>

NewConfigParser(defaults) ==
    [defaults |-> defaults, sections |-> <<>>, opts |-> [s \in {} |-> EmptyDict]]

\* ConfigParser.sections()
Sections(c) == c.sections

HasSection(c, s) == \E i \in 1..Len(c.sections) : c.sections[i] = s

\* a new, empty section at the end of the section order
AddSection(c, s) ==
    [c EXCEPT !.sections = Append(@, s),
              !.opts = [x \in DOMAIN @ \cup {s} |-> IF x = s THEN EmptyDict ELSE @[x]]]

\* one option stored: in DEFAULT's mapping or in the section's own
SetOption(c, s, k, v) ==
    IF s = DefaultSect THEN [c EXCEPT !.defaults = Put(@, k, v)]
    ELSE [c EXCEPT !.opts[s] = Put(@, k, v)]

\* ConfigParser.optionxform
OptionXForm(k) == Lower(k)

\* the lines of a sectioned file, as the parser classifies them: a section
\* header [a], an option a = b, or a line that is neither (a header without
\* its closing bracket, text without a delimiter)
Header(s) == [t |-> "sect", a |-> s, b |-> <<>>]
Option(k, v) == [t |-> "opt", a |-> k, b |-> v]
Junk == [t |-> "junk", a |-> <<"[", "b">>, b |-> <<>>]

RECURSIVE ReadItems(_, _, _, _, _, _)
\* ConfigParser._read on the lines of one file: the parser as the lines
\* leave it and the error raised, "ok" if none. Sections and options are
\* stored as they are read; a duplicate or an option before any header
\* raises at its line, a line that cannot be parsed at the end of the file.
ReadItems(c, items, cursect, addedSects, addedOpts, unparsed) ==
    IF items = <<>>
    THEN [cfg |-> c, err |-> IF unparsed THEN "ParsingError" ELSE "ok"]
    ELSE
      LET item == Head(items)
          rest == Tail(items)
      IN  IF item.t = "sect"
          THEN IF HasSection(c, item.a)
               THEN IF item.a \in addedSects
                    THEN [cfg |-> c, err |-> "DuplicateSectionError"]
                    ELSE ReadItems(c, rest, item.a, addedSects \cup {item.a},
                                   addedOpts, unparsed)
               ELSE IF item.a = DefaultSect
               THEN ReadItems(c, rest, item.a, addedSects, addedOpts, unparsed)
               ELSE ReadItems(AddSection(c, item.a), rest, item.a,
                              addedSects \cup {item.a}, addedOpts, unparsed)
          ELSE IF cursect = None
          THEN [cfg |-> c, err |-> "MissingSectionHeaderError"]
          ELSE IF item.t = "opt"
          THEN LET optname == OptionXForm(RStrip(item.a)) IN
               IF <<cursect, optname>> \in addedOpts
               THEN [cfg |-> c, err |-> "DuplicateOptionError"]
               ELSE ReadItems(SetOption(c, cursect, optname, Strip(item.b)), rest,
                              cursect, addedSects,
                              addedOpts \cup {<<cursect, optname>>}, unparsed)
          ELSE ReadItems(c, rest, cursect, addedSects, addedOpts, TRUE)

\* ConfigParser._read(fp, filename)
ReadFp(c, items) == ReadItems(c, items, None, {}, {}, FALSE)

\* ConfigParser.read_dict({section: {key: value}})
ReadDict(c, section, key, value) ==
    LET c1 == IF section = DefaultSect \/ HasSection(c, section) THEN c
              ELSE AddSection(c, section)
    IN  SetOption(c1, section, OptionXForm(key), value)

\* the options a SectionProxy shows: the section's own and DEFAULT's
ProxyKeys(c, s) == DOMAIN c.opts[s] \cup DOMAIN c.defaults

\* SectionProxy.__getitem__: the section's own value, else DEFAULT's
ProxyGet(c, s, k) == IF k \in DOMAIN c.opts[s] THEN c.opts[s][k] ELSE c.defaults[k]

\* the mapping a SectionProxy presents
ProxyItems(c, s) == [k \in ProxyKeys(c, s) |-> ProxyGet(c, s, k)]

\* ------------------------------------------------------------- fnmatch
RECURSIVE ClassEnd(_, _)
\* the index of the "]" that closes a character class, looking from j on;
\* past the end of the pattern when there is none
ClassEnd(pat, j) ==
    IF j > Len(pat) THEN j
    ELSE IF pat[j] = "]" THEN j ELSE ClassEnd(pat, j + 1)

RECURSIVE Glob(_, _)
\* fnmatch.fnmatchcase(name, pat): "*", "?", "[seq]" and "[!seq]" of single
\* characters; the whole of name must match
Glob(name, pat) ==
    IF pat = <<>> THEN name = <<>>
    ELSE IF Head(pat) = "*"
    THEN \E k \in 0..Len(name) : Glob(SubSeq(name, k + 1, Len(name)), Tail(pat))
    ELSE IF Head(pat) = "?"
    THEN name # <<>> /\ Glob(Tail(name), Tail(pat))
    ELSE IF Head(pat) = "["
    THEN LET j0 == IF Len(pat) >= 2 /\ pat[2] = "!" THEN 3 ELSE 2
             j1 == IF j0 <= Len(pat) /\ pat[j0] = "]" THEN j0 + 1 ELSE j0
             j == ClassEnd(pat, j1)
         IN  IF j > Len(pat)
             THEN name # <<>> /\ Head(name) = "[" /\ Glob(Tail(name), Tail(pat))
             ELSE LET negate == pat[2] = "!"
                      first == IF negate THEN 3 ELSE 2
                      chars == {pat[i] : i \in first..(j - 1)}
                  IN  /\ name # <<>>
                      /\ (Head(name) \in chars) # negate
                      /\ Glob(Tail(name), SubSeq(pat, j + 1, Len(pat)))
    ELSE name # <<>> /\ Head(name) = Head(pat) /\ Glob(Tail(name), Tail(pat))

\* fnmatch.fnmatch(name, pat); os.path.normcase changes nothing on POSIX
Fnmatch(name, pat) == Glob(name, pat)

\* ------------------------------------------------------- match_section
\* the SectionProxy returned, or None
NoSection == [found |-> FALSE, name |-> <<>>, items |-> EmptyDict]

\* config[section]: the proxy of section s and the mapping it presents
SectionProxy(c, s) == [found |-> TRUE, name |-> s, items |-> ProxyItems(c, s)]

RECURSIVE FirstMatching(_, _, _)
\* the for loop of match_section over the sections left
FirstMatching(name, c, sections) ==
    IF sections = <<>> THEN NoSection
    ELSE IF Fnmatch(name, Head(sections)) THEN SectionProxy(c, Head(sections))
    ELSE FirstMatching(name, c, Tail(sections))

MatchSectionLastMutant(name, c) ==
    LET hits == {i \in 1..Len(Sections(c)) : Fnmatch(name, Sections(c)[i])} IN
    IF hits = {} THEN NoSection
    ELSE SectionProxy(c, Sections(c)[CHOOSE i \in hits : \A j \in hits : j <= i])

MatchSectionDefaultFallbackMutant(name, c) ==
    LET hit == FirstMatching(name, c, Sections(c)) IN
    IF hit.found THEN hit
    ELSE [found |-> TRUE, name |-> DefaultSect, items |-> c.defaults]

\* match_section(name, config)
MatchSection(name, c) == FirstMatching(name, c, Sections(c))

\* bool(proxy): a SectionProxy is a mapping, false when it shows no option
Truthy(proxy) == proxy.found /\ DOMAIN proxy.items # {}

\* match_section(logfile, cfg) or cfg_defaults, as the mapping it presents
SectionOrDefaults(name, c) ==
    LET proxy == MatchSection(name, c) IN
    IF Truthy(proxy) THEN proxy.items ELSE c.defaults

\* section names, option names and values, and the names looked up
SectionNames == {DefaultSect, <<"*">>, <<"b">>, <<"a", "b", "*">>, <<"[", "a", "b", "]">>}
OptionNames == {<<"1">>, <<"2">>}
OptionValues == {<<"x">>, <<"y">>}
Targets == {<<>>, <<"b">>, <<"a", "b", "c">>, <<"x", "a", "b">>}

MsIdle ==
    /\ cfg = NewConfigParser(EmptyDict) /\ ms_n = 0 /\ ms_name = <<>>
    /\ ms_result = NoSection /\ ms_section = EmptyDict /\ ms_pc = "idle"

\* configparser.ConfigParser(interpolation=None), as the unit tests set it up
MsSetUp ==
    /\ cfg = NewConfigParser(EmptyDict) /\ ms_n = 0 /\ ms_name = <<>>
    /\ ms_result = NoSection /\ ms_section = EmptyDict /\ ms_pc = "setup"

\* config.read_dict({section: {key: value}})
ReadDictCall ==
    /\ ms_pc \in {"setup", "looked_up"}
    /\ ms_n < MaxReadDicts
    /\ \E s \in SectionNames, k \in OptionNames, v \in OptionValues :
         cfg' = ReadDict(cfg, s, k, v)
    /\ ms_n' = ms_n + 1
    /\ ms_pc' = "setup"
    /\ UNCHANGED <<ms_name, ms_result, ms_section>>
    /\ UNCHANGED notMs

\* section = match_section(name, cfg) or cfg.defaults()
MatchSectionCall ==
    /\ ms_pc \in {"setup", "looked_up"}
    /\ \E name \in Targets :
         /\ ms_name' = name
         /\ ms_result' = MatchSection(name, cfg)
         /\ ms_section' = SectionOrDefaults(name, cfg)
    /\ ms_pc' = "looked_up"
    /\ UNCHANGED <<cfg, ms_n>>
    /\ UNCHANGED notMs

\* -------------------------------------------- read_configuration and main
LevelKey == <<"l","e","v","e","l">>

\* what the sectioned settings files of the model hold
IniContents ==
    { <<>>,
      <<Header(<<"b">>), Option(LevelKey, <<"E","R","R","O","R">>)>>,
      <<Header(<<"*">>), Option(LevelKey, <<"D","E","B","U","G">>), Option(<<"k">>, <<"1">>)>>,
      <<Header(<<"b">>), Option(<<"K", " ">>, <<" ", "2">>),
        Header(<<"*">>), Option(LevelKey, <<"W","A","R","N","I","N","G">>)>>,
      <<Header(DefaultSect), Option(LevelKey, <<"C","R","I","T","I","C","A","L">>),
        Header(<<"b">>), Option(<<"k">>, <<"3">>)>>,
      <<Header(<<"b">>), Option(LevelKey, <<"b","o","g","u","s">>)>>,
      <<Header(<<"b">>), Option(<<"k">>, <<"1">>), Option(<<"K">>, <<"2">>)>>,
      <<Header(<<"b">>), Option(<<"k">>, <<"1">>), Junk, Option(LevelKey, <<"E","R","R","O","R">>)>>,
      <<Option(<<"k">>, <<"1">>)>>,
      <<Header(<<"b">>), Option(<<"k">>, <<"1">>),
        Header(<<"b">>), Option(LevelKey, <<"E","R","R","O","R">>)>> }

IniFiles ==
    {[openable |-> TRUE, lines |-> <<>>, items |-> c] : c \in IniContents}
        \cup {[openable |-> FALSE, lines |-> <<>>, items |-> <<>>]}

\* the flat configuration file a directory may hold beside the sectioned one
MainFlatFile == [openable |-> TRUE, lines |-> <<<<"l","e","v","e","l","=","D","E","B","U","G">>>>, items |-> <<>>]

RECURSIVE Reverse(_)
\* reversed(cfgs)
Reverse(s) == IF s = <<>> THEN <<>> ELSE Append(Reverse(Tail(s)), Head(s))

ReadOrderForwardMutant(cfgs) == cfgs

\* the order read_configuration hands the files found to config.read
ReadOrder(cfgs) == Reverse(cfgs)

\* dict(general_defaults.items()), as ConfigParser(defaults=...) reads it
ChainItems(chain) == [k \in ChainKeys(chain) |-> ChainGet(chain, k)]

NoError == [kind |-> "none", file |-> <<>>]

OnConfigErrorIgnoreMutant == "ignore"

\* what main does with a configparser.Error from read_configuration
OnConfigError == "die"

\* args.logfiles and args.level as parse_args may return them
ArgsValues ==
    [logfiles : {<<>>, << <<"b">> >>, << <<"a", "b", "c">>, <<"b">> >>},
     level : {None, <<"E","R","R","O","R">>}]

NoArgs == [logfiles |-> <<>>, level |-> None]

IsLogLevel(level) == \E i \in 1..Len(LOG_LEVELS) : LOG_LEVELS[i] = level

MainIdle ==
    /\ pc = "idle" /\ rc_cfgs = <<>> /\ rc_i = 0
    /\ rc_before = NewConfigParser(EmptyDict) /\ files_read = <<>>
    /\ err = NoError /\ exit_status = -1 /\ stderr = NoError
    /\ args = NoArgs /\ lf_i = 0 /\ awk_runs = <<>>

\* the process as main() starts: the environment, and a file system with a
\* sectioned file, and in the first directory possibly a flat one, in the
\* directories of the search path
MainStarted ==
    /\ environ \in [XDG_CONFIG_HOME : {None}, XDG_CONFIG_DIRS : {None, <<"a", ":", "b">>}]
    /\ LET dirs == {XdgConfigDirs(environ)[i] : i \in 1..Len(XdgConfigDirs(environ))}
           ini == {PathJoin(d, PathJoinAll(<<Prog, LOGFILES_CONF_PATH>>)) : d \in dirs}
           flat == PathJoin(XdgConfigDirs(environ)[1], PathJoinAll(<<Prog, CONFIG_PATH>>))
       IN  \E present \in SUBSET ini, withFlat \in BOOLEAN :
             \E inis \in [present -> IniFiles] :
               fs = [path \in present \cup (IF withFlat THEN {flat} ELSE {}) |->
                       IF path = flat THEN MainFlatFile ELSE inis[path]]
    /\ LdCalled(DEFAULTS)
    /\ cfg = NewConfigParser(EmptyDict) /\ ms_pc = "idle" /\ ms_n = 0
    /\ ms_name = <<>> /\ ms_result = NoSection /\ ms_section = EmptyDict
    /\ pc = "load_defaults" /\ rc_cfgs = <<>> /\ rc_i = 0
    /\ rc_before = NewConfigParser(EmptyDict) /\ files_read = <<>>
    /\ err = NoError /\ exit_status = -1 /\ stderr = NoError
    /\ args = NoArgs /\ lf_i = 0 /\ awk_runs = <<>>

\* cfg = ConfigParser(defaults=general_defaults, interpolation=None) and the
\* start of read_configuration: the files found, in the order to read them
MainNewParser ==
    /\ pc = "load_defaults"
    /\ ld_pc = "returned"
    /\ cfg' = NewConfigParser(ChainItems(general_defaults))
    /\ rc_cfgs' = ReadOrder(LoadConfigPaths(environ, fs, <<Prog, LOGFILES_CONF_PATH>>))
    /\ rc_i' = 1
    /\ pc' = "read"
    /\ UNCHANGED <<rc_before, files_read, err, exit_status, stderr, args, lf_i, awk_runs>>
    /\ UNCHANGED <<ms_pc, ms_n, ms_name, ms_result, ms_section>>
    /\ UNCHANGED <<kvVars, disVars, envVars, lcpVars, ldVars>>

\* config.read on the next file: one that cannot be opened is passed over, an
\* error of the parser leaves read_configuration at once
RcReadFile ==
    /\ pc = "read"
    /\ rc_i <= Len(rc_cfgs)
    /\ LET file == rc_cfgs[rc_i]
           read == ReadFp(cfg, fs[file].items)
       IN  IF ~fs[file].openable
           THEN /\ rc_i' = rc_i + 1
                /\ UNCHANGED <<cfg, rc_before, files_read, err, pc>>
           ELSE /\ rc_before' = cfg
                /\ cfg' = read.cfg
                /\ IF read.err = "ok"
                   THEN /\ files_read' = Append(files_read, file)
                        /\ rc_i' = rc_i + 1
                        /\ UNCHANGED <<err, pc>>
                   ELSE /\ err' = [kind |-> read.err, file |-> file]
                        /\ pc' = "config_error"
                        /\ UNCHANGED <<files_read, rc_i>>
    /\ UNCHANGED <<rc_cfgs, exit_status, stderr, args, lf_i, awk_runs>>
    /\ UNCHANGED <<ms_pc, ms_n, ms_name, ms_result, ms_section>>
    /\ UNCHANGED <<kvVars, disVars, envVars, lcpVars, ldVars>>

\* read_configuration returns files_read
RcReturn ==
    /\ pc = "read"
    /\ rc_i > Len(rc_cfgs)
    /\ pc' = "parse_args"
    /\ UNCHANGED <<rc_cfgs, rc_i, rc_before, files_read, err, exit_status, stderr,
                   args, lf_i, awk_runs>>
    /\ UNCHANGED <<kvVars, disVars, envVars, lcpVars, ldVars, msVars>>

\* except configparser.Error as err: die(f"Error with configuration file: {err}")
MainConfigError ==
    /\ pc = "config_error"
    /\ IF OnConfigError = "die"
       THEN /\ stderr' = err
            /\ exit_status' = 1
            /\ pc' = "exited"
       ELSE /\ pc' = "parse_args"
            /\ UNCHANGED <<stderr, exit_status>>
    /\ UNCHANGED <<rc_cfgs, rc_i, rc_before, files_read, err, args, lf_i, awk_runs>>
    /\ UNCHANGED <<kvVars, disVars, envVars, lcpVars, ldVars, msVars>>

\* args = build_cla_parser(cfg_defaults).parse_args(); return on a null glob
MainParseArgs ==
    /\ pc = "parse_args"
    /\ \E a \in ArgsValues :
         /\ args' = a
         /\ IF a.logfiles = <<>>
            THEN pc' = "returned" /\ exit_status' = 0 /\ lf_i' = lf_i
            ELSE pc' = "filter" /\ exit_status' = exit_status /\ lf_i' = 1
    /\ UNCHANGED <<rc_cfgs, rc_i, rc_before, files_read, err, stderr, awk_runs>>
    /\ UNCHANGED <<kvVars, disVars, envVars, lcpVars, ldVars, msVars>>

\* the body of the for loop of main for one log file: the section is looked
\* up, the level checked, date and awk run; either program may fail, and a
\* failure, like a level that is no log level, ends in die()
MainFilter ==
    /\ pc = "filter"
    /\ lf_i <= Len(args.logfiles)
    /\ LET logfile == args.logfiles[lf_i]
           section == SectionOrDefaults(logfile, cfg)
           level == IF args.level # None THEN args.level ELSE section[LevelKey]
       IN  /\ ms_name' = logfile
           /\ ms_result' = MatchSection(logfile, cfg)
           /\ ms_section' = section
           /\ \E programs_ok \in BOOLEAN :
                IF IsLogLevel(level) /\ programs_ok
                THEN /\ awk_runs' = Append(awk_runs,
                            [file |-> logfile, level |-> level, section |-> section])
                     /\ lf_i' = lf_i + 1
                     /\ UNCHANGED <<pc, exit_status, stderr>>
                ELSE /\ stderr' = [kind |-> IF IsLogLevel(level) THEN "CalledProcessError"
                                            ELSE "invalid level name",
                                   file |-> logfile]
                     /\ exit_status' = 1
                     /\ pc' = "exited"
                     /\ UNCHANGED <<awk_runs, lf_i>>
    /\ UNCHANGED <<rc_cfgs, rc_i, rc_before, files_read, err, args>>
    /\ UNCHANGED <<cfg, ms_pc, ms_n>>
    /\ UNCHANGED <<kvVars, disVars, envVars, lcpVars, ldVars>>

\* the loop is over and main returns
MainReturn ==
    /\ pc = "filter"
    /\ lf_i > Len(args.logfiles)
    /\ pc' = "returned"
    /\ exit_status' = 0
    /\ UNCHANGED <<rc_cfgs, rc_i, rc_before, files_read, err, stderr, args, lf_i, awk_runs>>
    /\ UNCHANGED <<kvVars, disVars, envVars, lcpVars, ldVars, msVars>>

\* ------------------------------------------------------- specifications
EnvIdle ==
    /\ environ = [XDG_CONFIG_HOME |-> None, XDG_CONFIG_DIRS |-> None]
    /\ fs = [path \in {} |-> PlainFile]

KvSpecInit == KvInit /\ DisIdle /\ EnvIdle /\ LcpIdle /\ LdIdle /\ MsIdle /\ MainIdle

KvNext == ParseKvLine \/ ParseKvReturn

\* parse_kv_config fed line by line
SpecKV == KvSpecInit /\ [][KvNext]_vars

DisSpecInit == DisInit /\ KvIdle /\ EnvIdle /\ LcpIdle /\ LdIdle /\ MsIdle /\ MainIdle

DisNext == TypeCheckerCall

\* disambiguate built once and its resolver called repeatedly
SpecDis == DisSpecInit /\ [][DisNext]_vars

PathsInit == LcpCalled /\ KvIdle /\ DisIdle /\ LdIdle /\ MsIdle /\ MainIdle

PathsNext == LcpBegin \/ LcpIterate \/ LcpExhausted

\* load_config_paths consumed to the end
SpecPaths == PathsInit /\ [][PathsNext]_vars

LoadInit == LdCalledOnFlatFiles /\ KvIdle /\ DisIdle /\ LcpIdle /\ MsIdle /\ MainIdle

LoadNext == LdBegin \/ LdIterate \/ LdReturn

\* load_defaults run to its return
SpecLoad == LoadInit /\ [][LoadNext]_vars

MatchInit == MsSetUp /\ KvIdle /\ DisIdle /\ EnvIdle /\ LcpIdle /\ LdIdle /\ MainIdle

MatchNext == ReadDictCall \/ MatchSectionCall

\* a ConfigParser filled by read_dict and looked up with match_section
SpecMatch == MatchInit /\ [][MatchNext]_vars

Init == MainStarted /\ KvIdle /\ DisIdle /\ LcpIdle

Next ==
    \/ LdBegin \/ LdIterate \/ LdReturn
    \/ MainNewParser \/ RcReadFile \/ RcReturn \/ MainConfigError
    \/ MainParseArgs \/ MainFilter \/ MainReturn

\* main() from its first statement to its return or exit
Spec == Init /\ [][Next]_vars

\* ----------------------------------------------------------------- claims

\* s starts with p, character by character
IsPrefixOf(p, s) == Len(p) <= Len(s) /\ \A k \in 1..Len(p) : s[k] = p[k]

\* positions of the names whose normalized form starts with the normalized raw
MatchingPositions(raw) ==
    {j \in 1..Len(names) :
        IsPrefixOf(ApplyFunc(dis_func, raw), ApplyFunc(dis_func, names[j]))}

\* what a scan of all of names must resolve raw to
ResolvedOverAll(raw) ==
    IF Cardinality(MatchingPositions(raw)) = 1
    THEN names[CHOOSE j \in MatchingPositions(raw) : TRUE]
    ELSE ApplyFunc(dis_func, raw)

\* C5: over a re-iterable collection of names every call of the resolver
\* returns the one name whose normalized form starts with the normalized
\* input when exactly one name does, and the normalized input otherwise (no
\* name, or several, an exact match among them included); no call raises.
C5_UniquePrefixOrPassThrough ==
    ~names_oneshot =>
        \A i \in 1..Len(dis_calls) :
            /\ dis_calls[i].result = ResolvedOverAll(dis_calls[i].value)
            /\ dis_calls[i].result # Raised

\* C5 witness: over the tests' names, "a" (itself a name and a prefix of four
\* others) passed through and "ad" resolved to "ade".
C5_Witness ==
    /\ ~names_oneshot /\ names = TestNames /\ dis_func = "str"
    /\ dis_calls = <<[value |-> <<"a">>, result |-> <<"a">>],
                     [value |-> <<"a","d">>, result |-> <<"a","d","e">>]>>

\* C6: over a one-shot sequence the first call scans all names, resolves as
\* over a collection and leaves the sequence exhausted; every later call
\* returns its normalized input unchanged.
C6_OneShotExhausted ==
    names_oneshot =>
        /\ \A i \in 1..Len(dis_calls) :
            dis_calls[i].result =
                IF i = 1 THEN ResolvedOverAll(dis_calls[i].value)
                ELSE ApplyFunc(dis_func, dis_calls[i].value)
        /\ (Len(dis_calls) >= 1 => names_left = <<>>)

\* C6 witness: the tests' names behind an iterator, "ad" resolved to "ade" by
\* the first call and to "ad" by the second.
C6_Witness ==
    /\ names_oneshot /\ names = TestNames /\ dis_func = "str"
    /\ dis_calls = <<[value |-> <<"a","d">>, result |-> <<"a","d","e">>],
                     [value |-> <<"a","d">>, result |-> <<"a","d">>]>>

\* positions of the characters of s that are not whitespace
InkPositions(s) == {i \in 1..Len(s) : s[i] \notin Whitespace}

\* s without its leading and trailing whitespace
Trimmed(s) ==
    IF InkPositions(s) = {} THEN <<>>
    ELSE LET lo == CHOOSE i \in InkPositions(s) : \A j \in InkPositions(s) : i <= j
             hi == CHOOSE i \in InkPositions(s) : \A j \in InkPositions(s) : j <= i
         IN  [k \in 1..(hi - lo + 1) |-> s[lo + k - 1]]

EqualsPositions(s) == {i \in 1..Len(s) : s[i] = "="}

FirstEquals(s) == CHOOSE i \in EqualsPositions(s) : \A j \in EqualsPositions(s) : i <= j

\* the line's first non-whitespace character is '#'
IsCommentLine(s) ==
    \E i \in InkPositions(s) : s[i] = "#" /\ \A j \in InkPositions(s) : i <= j

\* the mapping after a line, from the mapping before it
AfterLine(before, line) ==
    IF IsCommentLine(line) \/ EqualsPositions(line) = {} THEN before
    ELSE LET e == FirstEquals(line)
             key == Lower(Trimmed([k \in 1..(e - 1) |-> line[k]]))
             val == Trimmed([k \in 1..(Len(line) - e) |-> line[e + k]])
         IN  [x \in DOMAIN before \cup {key} |-> IF x = key THEN val ELSE before[x]]

\* C7: parse_kv_config builds its mapping line by line: a comment line and a
\* line without '=' add nothing; any other line is split at its first '=' and
\* maps the trimmed, lower-cased text before it (the empty string included) to
\* the trimmed text after it; the mapping returned is the one so built.
C7_ParseKvLineByLine ==
    /\ kv_n = 0 => symbols = EmptyDict
    /\ kv_n > 0 => symbols = AfterLine(kv_prev, kv_line)
    /\ kv_pc = "returned" => kv_result = symbols

\* C7 witness: two lines read and returned, one stored under the empty key with
\* a '#' kept in its value, one under a lower-cased key with a later '=' kept.
C7_Witness ==
    /\ kv_pc = "returned" /\ kv_n = 2
    /\ DOMAIN kv_result = {<<>>, <<"k">>}
    /\ kv_result[<<>>] = <<"#">>
    /\ kv_result[<<"k">>] = <<"=">>
    /\ kv_line = <<"K", "=", "=">>
\* the user base directory: XDG_CONFIG_HOME, ~/.config when unset or empty
C8_UserBase ==
    IF environ.XDG_CONFIG_HOME = None \/ Len(environ.XDG_CONFIG_HOME) = 0
    THEN <<"/", "home", "/", ".config">>
    ELSE environ.XDG_CONFIG_HOME

\* the system list as written: XDG_CONFIG_DIRS, /etc/xdg when unset or empty
C8_SystemText ==
    IF environ.XDG_CONFIG_DIRS = None \/ Len(environ.XDG_CONFIG_DIRS) = 0
    THEN <<"/", "etc", "/", "xdg">>
    ELSE environ.XDG_CONFIG_DIRS

\* position of the k-th colon of s; 0 before the first, Len(s)+1 after the last
C8_Colon(s, k) ==
    LET colons == {i \in 1..Len(s) : s[i] = ":"} IN
    IF k = 0 THEN 0
    ELSE IF k > Cardinality(colons) THEN Len(s) + 1
    ELSE CHOOSE i \in colons : Cardinality({j \in colons : j <= i}) = k

\* the base directories in search order: user base, then the listed ones
C8_BaseDirs ==
    LET s == C8_SystemText
        n == Cardinality({i \in 1..Len(s) : s[i] = ":"}) + 1
    IN  [k \in 1..(n + 1) |->
            IF k = 1 THEN C8_UserBase
            ELSE [m \in 1..(C8_Colon(s, k - 1) - C8_Colon(s, k - 2) - 1) |->
                    s[C8_Colon(s, k - 2) + m]]]

C8_Path(k) == PathJoin(C8_BaseDirs[k], PathJoinAll(lcp_resource))

\* the positions, among the first n base directories, whose path exists
C8_Existing(n) == {k \in 1..n : k <= Len(C8_BaseDirs) /\ C8_Path(k) \in DOMAIN fs}

\* C8: load_config_paths yields exactly the existing paths base/resource, the
\* user base directory first and the listed system directories after it in
\* listed order; a path that does not exist is skipped, and every position of
\* the search list contributes at most one path.
C8_ExistingPathsInOrder ==
    LET done == IF lcp_pc = "done" THEN Len(C8_BaseDirs)
                ELSE IF lcp_pc = "loop" THEN lcp_i - 1 ELSE 0
        hits == C8_Existing(done)
    IN  /\ lcp_pc \in {"created", "loop", "done"}
        /\ Len(lcp_out) = Cardinality(hits)
        /\ \A k \in hits : lcp_out[Cardinality({j \in hits : j <= k})] = C8_Path(k)
        /\ Len(lcp_out) <= Len(C8_BaseDirs)

\* C8 witness: XDG_CONFIG_HOME unset, XDG_CONFIG_DIRS "a:b", the resource
\* present under ~/.config and b but not under a: two paths, user base first.
C8_Witness ==
    /\ lcp_pc = "done"
    /\ environ = [XDG_CONFIG_HOME |-> None, XDG_CONFIG_DIRS |-> <<"a", ":", "b">>]
    /\ lcp_resource = <<Prog, CONFIG_PATH>>
    /\ lcp_out = << <<"/", "home", "/", ".config", "/", "logfilter", "/", "config">>,
                    <<"b", "/", "logfilter", "/", "config">> >>
    /\ <<"a", "/", "logfilter", "/", "config">> \notin DOMAIN fs
\* the flat configuration files found, in load_config_paths order
C3_Found == LoadConfigPaths(environ, fs, <<Prog, CONFIG_PATH>>)

\* the positions of the files that could be opened and read
C3_Read == {i \in 1..Len(C3_Found) : fs[C3_Found[i]].openable}

\* the mapping the file at position i holds
C3_FileMap(i) == ParseKvConfig(fs[C3_Found[i]].lines, EmptyDict)

\* the positions of the read files that define key k
C3_Definers(k) == {i \in C3_Read : k \in DOMAIN C3_FileMap(i)}

C3_Earliest(k) == CHOOSE i \in C3_Definers(k) : \A j \in C3_Definers(k) : i <= j

\* C3: in the view load_defaults returns every key has the value of the
\* earliest read file, in load_config_paths order, that defines it, and the
\* value of the base defaults when no file defines it; the keys of the view
\* are those of all read files and of the base defaults together.
C3_EarliestFileWins ==
    ld_pc = "returned" =>
        /\ ChainKeys(general_defaults)
             = DOMAIN ld_defaults \cup UNION {DOMAIN C3_FileMap(i) : i \in C3_Read}
        /\ \A k \in ChainKeys(general_defaults) :
             ChainGet(general_defaults, k)
               = IF C3_Definers(k) # {} THEN C3_FileMap(C3_Earliest(k))[k]
                 ELSE ld_defaults[k]

C3_Level == <<"l", "e", "v", "e", "l">>

\* C3 witness: two read files give "level" different values and the view has
\* the earlier one's, "x" comes from a file alone and "after" from DEFAULTS.
C3_Witness ==
    /\ ld_pc = "returned"
    /\ ld_defaults = DEFAULTS
    /\ \E i, j \in C3_Definers(C3_Level) :
         /\ i < j
         /\ C3_FileMap(i)[C3_Level] # C3_FileMap(j)[C3_Level]
         /\ ChainGet(general_defaults, C3_Level) = C3_FileMap(i)[C3_Level]
         /\ ChainGet(general_defaults, C3_Level) # DEFAULTS[C3_Level]
    /\ <<"x">> \in ChainKeys(general_defaults)
    /\ ChainGet(general_defaults, <<"a", "f", "t", "e", "r">>)
         = DEFAULTS[<<"a", "f", "t", "e", "r">>]

\* the found files among the first n that can be opened
C9_Opened(n) == {i \in 1..Len(C3_Found) : i <= n /\ fs[C3_Found[i]].openable}

\* C9: a found file that cannot be opened adds no layer and raises nothing;
\* the files after it are still parsed and merged in their place: the layers
\* are the mappings of the files that could be opened, in search order, and
\* the base defaults last.
C9_UnopenableSkipped ==
    LET n == IF ld_pc = "returned" THEN Len(C3_Found)
             ELSE IF ld_pc = "loop" THEN ld_i - 1 ELSE 0
        opened == C9_Opened(n)
    IN  /\ ld_pc \in {"start", "loop", "returned"}
        /\ ld_pc = "loop" => ld_i <= Len(C3_Found) + 1 /\ ld_cfgs = C3_Found
        /\ Len(ld_maps) = Cardinality(opened)
        /\ \A i \in opened :
             ld_maps[Cardinality({j \in opened : j <= i})] = C3_FileMap(i)
        /\ ld_pc = "returned" =>
             /\ Len(general_defaults) = Len(ld_maps) + 1
             /\ \A m \in 1..Len(ld_maps) : general_defaults[m] = ld_maps[m]
             /\ general_defaults[Len(general_defaults)] = ld_defaults

\* C9 witness: the first file found cannot be opened, a later one can and
\* supplies "level" to the view returned.
C9_Witness ==
    /\ ld_pc = "returned"
    /\ Len(C3_Found) >= 2
    /\ ~fs[C3_Found[1]].openable
    /\ \E j \in 2..Len(C3_Found) :
         /\ fs[C3_Found[j]].openable
         /\ C3_Level \in DOMAIN C3_FileMap(j)
         /\ ld_defaults = DEFAULTS
         /\ ChainGet(general_defaults, C3_Level) = C3_FileMap(j)[C3_Level]
         /\ C3_FileMap(j)[C3_Level] # DEFAULTS[C3_Level]

\* the positions, in declared order, of the sections whose pattern matches
\* the name looked up
MatchingSections == {i \in 1..Len(cfg.sections) : Fnmatch(ms_name, cfg.sections[i])}

\* the matching sections that define key k themselves
MatchingDefiners(k) == {i \in MatchingSections : k \in DOMAIN cfg.opts[cfg.sections[i]]}

\* DEFAULT overlaid by every matching section in declared order
OverlaidKeys ==
    DOMAIN cfg.defaults
        \cup UNION {DOMAIN cfg.opts[cfg.sections[i]] : i \in MatchingSections}

OverlaidValue(k) ==
    IF MatchingDefiners(k) # {}
    THEN cfg.opts[cfg.sections[CHOOSE i \in MatchingDefiners(k) :
                                 \A j \in MatchingDefiners(k) : j <= i]][k]
    ELSE cfg.defaults[k]

\* C1: the settings resolved for a name are DEFAULT overlaid, in declared
\* order, by every section whose pattern matches the name: each key has the
\* value of the last declared matching section that defines it, else
\* DEFAULT's.
C1_LastMatchingSectionWins ==
    ms_pc = "looked_up" =>
        /\ DOMAIN ms_section = OverlaidKeys
        /\ \A k \in DOMAIN ms_section : ms_section[k] = OverlaidValue(k)

\* the first section, in declared order, whose pattern matches
FirstMatchingSection ==
    cfg.sections[CHOOSE i \in MatchingSections : \A j \in MatchingSections : i <= j]

\* C2 as stated: match_section returns the first declared section that
\* matches, and the mapping returned holds that section's own keys only.
C2_OwnKeysOnly ==
    ms_pc = "looked_up" /\ ms_result.found =>
        /\ ms_result.name = FirstMatchingSection
        /\ DOMAIN ms_result.items = DOMAIN cfg.opts[ms_result.name]

\* C2 as amended: match_section returns the first declared section that
\* matches, None when none does; the mapping returned shows that section's
\* own keys and DEFAULT's keys, a key having the section's own value when the
\* section defines it and DEFAULT's otherwise; what other matching sections
\* define does not show.
C2_FirstMatchOverDefault ==
    ms_pc = "looked_up" =>
        /\ ms_result.found <=> MatchingSections # {}
        /\ ms_result.found =>
             /\ ms_result.name = FirstMatchingSection
             /\ DOMAIN ms_result.items
                  = DOMAIN cfg.opts[ms_result.name] \cup DOMAIN cfg.defaults
             /\ \A k \in DOMAIN ms_result.items :
                  ms_result.items[k]
                    = IF k \in DOMAIN cfg.opts[ms_result.name]
                      THEN cfg.opts[ms_result.name][k]
                      ELSE cfg.defaults[k]

\* C2 witness: "b" looked up where sections "b" and "*" both match; the proxy
\* of "b" is returned, it shows key 1 from DEFAULT and not the value "*" gives
\* key 2.
C2_Witness ==
    /\ ms_pc = "looked_up" /\ ms_name = <<"b">>
    /\ cfg.sections = << <<"b">>, <<"*">> >>
    /\ cfg.defaults = (<<"1">> :> <<"x">>)
    /\ cfg.opts[<<"b">>] = (<<"2">> :> <<"x">>)
    /\ cfg.opts[<<"*">>] = (<<"2">> :> <<"y">>)
    /\ ms_result.found /\ ms_result.name = <<"b">>
    /\ ms_result.items = (<<"1">> :> <<"x">>) @@ (<<"2">> :> <<"x">>)

\* the sectioned files handed to config.read, taken last to first; by the
\* first part of C4 these are the files found, highest precedence first
C4_Found == [n \in 1..Len(rc_cfgs) |-> rc_cfgs[Len(rc_cfgs) + 1 - n]]

\* the positions of those that can be opened
C4_Opened == {i \in 1..Len(C4_Found) : fs[C4_Found[i]].openable}

C4_Items(i) == fs[C4_Found[i]].items

\* the section header that line j of file i stands under
C4_HeaderOf(i, j) ==
    LET heads == {h \in 1..(j - 1) : C4_Items(i)[h].t = "sect"} IN
    IF heads = {} THEN None
    ELSE C4_Items(i)[CHOOSE h \in heads : \A g \in heads : g <= h].a

\* the lines of file i that give option k in section s
C4_Lines(i, s, k) ==
    {j \in 1..Len(C4_Items(i)) :
        /\ C4_Items(i)[j].t = "opt"
        /\ Lower(Trimmed(C4_Items(i)[j].a)) = k
        /\ C4_HeaderOf(i, j) = s}

\* the opened files that define option k of section s
C4_Definers(s, k) == {i \in C4_Opened : C4_Lines(i, s, k) # {}}

\* the value the highest-precedence file defining (s, k) gives it
C4_Value(s, k) ==
    LET i == CHOOSE x \in C4_Definers(s, k) : \A y \in C4_Definers(s, k) : x <= y
        j == CHOOSE x \in C4_Lines(i, s, k) : TRUE
    IN  Trimmed(C4_Items(i)[j].b)

\* the option names file i gives section s
C4_FileKeys(i, s) ==
    {Lower(Trimmed(C4_Items(i)[j].a)) :
        j \in {x \in 1..Len(C4_Items(i)) :
                 C4_Items(i)[x].t = "opt" /\ C4_HeaderOf(i, x) = s}}

C4_Keys(s) == UNION {C4_FileKeys(i, s) : i \in C4_Opened}

\* the section names the opened files declare
C4_Declared ==
    UNION {{C4_Items(i)[j].a : j \in {y \in 1..Len(C4_Items(i)) : C4_Items(i)[y].t = "sect"}} :
             i \in C4_Opened} \ {DefaultSect}

C4_Loaded == pc \in {"parse_args", "filter", "returned"} \/ awk_runs # <<>>

\* C4: read_configuration reads the files found lowest precedence first, so
\* that once all are loaded every DEFAULT key and every key of a section has
\* the value of the highest-precedence file that defines it (DEFAULT keys no
\* file defines keep the value handed to the parser), and a section named in
\* several files is one section with the keys of all of them.
C4_HighestPrecedenceFileWins ==
    /\ pc \in {"read", "config_error"} \/ C4_Loaded =>
         /\ LET found == LoadConfigPaths(environ, fs, <<Prog, LOGFILES_CONF_PATH>>) IN
              rc_cfgs = [n \in 1..Len(found) |-> found[Len(found) + 1 - n]]
         /\ \A m, n \in 1..Len(files_read) :
              m < n => \E x, y \in C4_Opened :
                         x > y /\ files_read[m] = C4_Found[x] /\ files_read[n] = C4_Found[y]
    /\ C4_Loaded /\ err = NoError =>
         /\ {files_read[n] : n \in 1..Len(files_read)} = {C4_Found[i] : i \in C4_Opened}
         /\ {cfg.sections[n] : n \in 1..Len(cfg.sections)} = C4_Declared
         /\ \A m, n \in 1..Len(cfg.sections) : m # n => cfg.sections[m] # cfg.sections[n]
         /\ DOMAIN cfg.opts = C4_Declared
         /\ \A s \in C4_Declared :
              /\ DOMAIN cfg.opts[s] = C4_Keys(s)
              /\ \A k \in C4_Keys(s) : cfg.opts[s][k] = C4_Value(s, k)
         /\ DOMAIN cfg.defaults = ChainKeys(general_defaults) \cup C4_Keys(DefaultSect)
         /\ \A k \in DOMAIN cfg.defaults :
              cfg.defaults[k] = IF k \in C4_Keys(DefaultSect) THEN C4_Value(DefaultSect, k)
                                ELSE ChainGet(general_defaults, k)

\* C4 witness: three files loaded; two define key k of section "b" with
\* different values and the parser has the higher-precedence one; "b" is one
\* section that also has "level", which only another file gives it.
C4_Witness ==
    /\ C4_Loaded /\ err = NoError
    /\ Len(files_read) = 3
    /\ \E x, y \in C4_Definers(<<"b">>, <<"k">>) :
         /\ x < y
         /\ cfg.opts[<<"b">>][<<"k">>] = Trimmed(C4_Items(x)[CHOOSE j \in C4_Lines(x, <<"b">>, <<"k">>) : TRUE].b)
         /\ cfg.opts[<<"b">>][<<"k">>] # Trimmed(C4_Items(y)[CHOOSE j \in C4_Lines(y, <<"b">>, <<"k">>) : TRUE].b)
         /\ LevelKey \in DOMAIN cfg.opts[<<"b">>]
         /\ LevelKey \notin C4_FileKeys(x, <<"b">>)
         /\ LevelKey \notin C4_FileKeys(y, <<"b">>)

\* file i has a line the parser cannot take: an option before any header, a
\* line that is neither header nor option, a section header repeated, or an
\* option given twice under the same section name
C10_Malformed(i) ==
    LET items == C4_Items(i) IN
    \/ \E j \in 1..Len(items) : items[j].t = "junk"
    \/ \E j \in 1..Len(items) : items[j].t = "opt" /\ C4_HeaderOf(i, j) = None
    \/ \E j, h \in 1..Len(items) :
         /\ j < h /\ items[j].t = "sect" /\ items[h].t = "sect"
         /\ items[j].a = items[h].a /\ items[j].a # DefaultSect
    \/ \E j, h \in 1..Len(items) :
         /\ j < h /\ items[j].t = "opt" /\ items[h].t = "opt"
         /\ Lower(Trimmed(items[j].a)) = Lower(Trimmed(items[h].a))
         /\ C4_HeaderOf(i, j) = C4_HeaderOf(i, h)

C10_SomeMalformed == \E i \in C4_Opened : C10_Malformed(i)

\* C10 as amended: when a sectioned file that is read is malformed, loading
\* fails with an error naming a malformed file, main prints it and exits with
\* status 1, and no log file is filtered, so that no setting of that file is
\* ever used; the parser object itself is not restored.
C10_MalformedFileIsFatal ==
    /\ C10_SomeMalformed => ~C4_Loaded /\ awk_runs = <<>> /\ pc # "returned"
    /\ pc \in {"parse_args", "filter", "returned"} => err = NoError
    /\ err # NoError =>
         /\ pc \in {"config_error", "exited"}
         /\ \E i \in C4_Opened : err.file = C4_Found[i] /\ C10_Malformed(i)
         /\ awk_runs = <<>>
    /\ pc = "exited" /\ err # NoError => exit_status = 1 /\ stderr = err

\* C10 as stated: the same, and the configuration holds no setting of the
\* malformed file: it is as it was before that file was read.
C10_NoSettingOfMalformedFile ==
    /\ C10_MalformedFileIsFatal
    /\ err # NoError => cfg = rc_before

\* C10 witness: main has exited with status 1 on a duplicate key in the
\* highest-precedence file, after a lower-precedence file was read.
C10_Witness ==
    /\ pc = "exited" /\ exit_status = 1
    /\ stderr.kind = "DuplicateOptionError"
    /\ Len(C4_Found) >= 2
    /\ stderr.file = C4_Found[1]
    /\ Len(files_read) >= 1
    /\ awk_runs = <<>>

\* C11: in a configuration that declares no section, empty or holding only
\* DEFAULT keys, the lookup for any name returns the falsy "no match" result
\* (None), also when DEFAULT is not empty: DEFAULT alone is never a match.
C11_DefaultAloneNeverMatches ==
    ms_pc = "looked_up" /\ cfg.sections = <<>> =>
        /\ ~ms_result.found
        /\ ms_result.items = EmptyDict
        /\ ~(ms_result.found /\ DOMAIN ms_result.items # {})

\* C11 witness: a name looked up in a configuration that has DEFAULT keys and
\* no section; nothing was returned.
C11_Witness ==
    /\ ms_pc = "looked_up" /\ ms_name = <<"b">>
    /\ cfg.sections = <<>>
    /\ DOMAIN cfg.defaults = {<<"1">>, <<"2">>}
    /\ ~ms_result.found
====
